---- MODULE Spec2Model ----
(***************************************************************************)
(* Multivariate-normal density evaluators (serial and OpenMP versions) and *)
(* the vector-sum examples (serial, RcppParallel parallelReduce, OpenMP).  *)
(*                                                                         *)
(* Real numbers are kept exact and symbolic.  A log-density is the real    *)
(*     (c2pi/2)*log(2*pi) - (1/2)*log(ldet) - (1/2)*quad                   *)
(* with c2pi an integer and ldet, quad rationals <<num, den>>; exps counts *)
(* the elementwise exponentials applied to it.  An R session calls one     *)
(* exported function at a time; the OpenMP thread-count setting            *)
(* (nthreads-var) is the only state that outlives a call.                  *)
(***************************************************************************)
EXTENDS Integers, Sequences, FiniteSets

\* Largest number of rows of the row batch x.
MaxRows == 2
\* Number of processors: the largest worker count, and the initial setting.
MaxThreads == 2
\* Largest length of the vector handed to the sum functions.
MaxLen == 3
\* Largest number of Sum workers parallelReduce creates by splitting.
MaxSplits == 2

VARIABLES
    numThreads,   \* OpenMP nthreads-var: the process-wide thread-count setting
    pc,           \* position of the calling (master) thread
    call,         \* the exported function being run and its arguments
    before,       \* value of numThreads when the current call was entered
    loc,          \* locals computed before the loop: rooti, rootisum, constants
    out,          \* dmvnrm_arma_mc: the result vector out, one entry per row
    xcen,         \* Mahalanobis_mc: the matrix x_cen, one row per row of x
    writes,       \* how many times each entry of out / row of x_cen has been written
    next,         \* next unclaimed iteration of the dynamically scheduled loop
    thr,          \* per team thread: what it is doing
    res,          \* armasum2: the shared accumulator res
    red,          \* parallelReduce: the Sum workers and the chunks left
    outcome       \* what the call hands back to R

vars == <<numThreads, pc, call, before, loc, out, xcen, writes, next, thr, res, red, outcome>>

----------------------------------------------------------------------------
(* Exact rational arithmetic on pairs <<num, den>>, den > 0, in lowest terms *)

Abs(a) == IF a < 0 THEN 0 - a ELSE a

RECURSIVE Gcd(_, _)
Gcd(a, b) == IF b = 0 THEN a ELSE Gcd(b, a % b)

Rat(n, d) ==
    LET s == IF d < 0 THEN 0 - 1 ELSE 1
        g == Gcd(Abs(n), Abs(d))
    IN  <<(s * n) \div g, (s * d) \div g>>

RInt(n) == <<n, 1>>

\* Sum, product and quotient.  The operands are bound to a and b so that each is
\* evaluated once, also where an action is evaluated for ENABLED.
RAdd(p, q) ==
    CHOOSE r \in {Rat(a[1] * b[2] + b[1] * a[2], a[2] * b[2]) : a \in {p}, b \in {q}} : TRUE
RMul(p, q) ==
    CHOOSE r \in {Rat(a[1] * b[1], a[2] * b[2]) : a \in {p}, b \in {q}} : TRUE
RDiv(p, q) ==
    CHOOSE r \in {Rat(a[1] * b[2], a[2] * b[1]) : a \in {p}, b \in {q}} : TRUE
RPos(p) == p[1] > 0

RECURSIVE RSum(_)
RSum(s) ==
    CHOOSE r \in {IF t = <<>> THEN RInt(0) ELSE RAdd(Head(t), RSum(Tail(t))) : t \in {s}} : TRUE

RECURSIVE RProd(_)
RProd(s) ==
    CHOOSE r \in {IF t = <<>> THEN RInt(1) ELSE RMul(Head(t), RProd(Tail(t))) : t \in {s}} : TRUE

\* Dot product of a rational row with an integer column.
RDot(w, y) == RSum([c \in 1..Len(w) |-> RMul(w[c], RInt(y[c]))])

----------------------------------------------------------------------------
(* Values held by a result vector *)

Unset == [kind |-> "unset", c2pi |-> 0, ldet |-> RInt(1), quad |-> RInt(0), exps |-> 0]
NaN == [kind |-> "nan", c2pi |-> 0, ldet |-> RInt(1), quad |-> RInt(0), exps |-> 0]
LogVal(c, d, q) == [kind |-> "num", c2pi |-> c, ldet |-> d, quad |-> q, exps |-> 0]

\* exp() of one entry; exp(NaN) is NaN, and an entry never written stays garbage.
ExpOne(v) == IF v.kind = "num" THEN [v EXCEPT !.exps = @ + 1] ELSE v

\* out = exp(out): the elementwise pass over the whole vector.
ExpVec(v) == [i \in 1..Len(v) |-> ExpOne(v[i])]

Value(v) == [kind |-> "value", val |-> v]
Error(what) == [kind |-> "error", val |-> what]
\* The process is gone: std::terminate was called, nothing is handed back.
Terminated == [kind |-> "abort", val |-> "terminate"]
NoOutcome == [kind |-> "none", val |-> <<>>]

----------------------------------------------------------------------------
(* Dense linear algebra on the symmetric matrices of dimension 1 and 2 *)

Det(sigma) ==
    IF Len(sigma) = 1 THEN sigma[1][1]
    ELSE sigma[1][1] * sigma[2][2] - sigma[1][2] * sigma[2][1]

\* Pivots of the Cholesky factorization: chol(sigma) = D^(1/2) * U with U unit
\* upper triangular and D = diag(pivots).
Pivots(sigma) ==
    IF Len(sigma) = 1 THEN <<RInt(sigma[1][1])>>
    ELSE <<RInt(sigma[1][1]),
           IF sigma[1][1] = 0 THEN RInt(0) ELSE Rat(Det(sigma), sigma[1][1])>>

\* arma::chol throws std::runtime_error unless every pivot is positive.
CholOK(sigma) == \A j \in 1..Len(sigma) : RPos(Pivots(sigma)[j])

\* trans(inv(trimatu(chol(sigma)))): row j is w[j] / sqrt(piv[j]), w unit lower
\* triangular.
Rooti(sigma) ==
    [piv |-> Pivots(sigma),
     w   |-> IF Len(sigma) = 1 THEN <<(<<RInt(1)>>)>>
             ELSE << <<RInt(1), RInt(0)>>,
                     <<Rat(0 - sigma[1][2], sigma[1][1]), RInt(1)>> >>]

\* sum(log(rooti.diag())): the diagonal entries are 1/sqrt(piv[j]), so the sum is
\* -(1/2)*log(prod(piv)); kept as the argument prod(piv).
RootiSum(rooti) == RProd(rooti.piv)

\* -(xdim/2) * log(2*M_PI) with int xdim: the quotient is an integer division.
\* Kept as twice the coefficient of log(2*pi).
Constants(xdim) == 0 - 2 * (xdim \div 2)

\* x.row(i) - mean
Centered(row, mean) == [c \in 1..Len(row) |-> row[c] - mean[c]]

\* z = rooti * trans(x.row(i) - mean); arma::sum(z % z)
SumZZ(rooti, row, mean) ==
    LET y == Centered(row, mean)
        zz == [j \in 1..Len(rooti.piv) |->
                 LET wy == RDot(rooti.w[j], y)
                 IN  RDiv(RMul(wy, wy), rooti.piv[j])]
    IN  RSum(zz)

\* out(i) = constants - 0.5 * arma::sum(z%z) + rootisum
RowLogDensity(l, row, mean) == LogVal(l.constants, l.rootisum, SumZZ(l.rooti, row, mean))

\* Armadillo checks operand sizes when an expression is evaluated and throws
\* std::logic_error: x.row(i) - mean needs equally long operands, and
\* rooti * trans(...) needs as many columns in rooti as the row has entries.
SubtractOK(row, mean) == Len(row) = Len(mean)
MultiplyOK(rooti, row) == Len(rooti.piv) = Len(row)
RowOK(rooti, row, mean) == SubtractOK(row, mean) /\ MultiplyOK(rooti, row)

\* The locals set up before the per-row loop.
Locals(sigma, xdim) ==
    LET r == Rooti(sigma)
    IN  [rooti |-> r, rootisum |-> RootiSum(r), constants |-> Constants(xdim)]

NoLocals == [rooti |-> [piv |-> <<>>, w |-> <<>>], rootisum |-> RInt(1), constants |-> 0]

\* cov.i(): throws std::runtime_error when cov is singular.
Invertible(cov) == Det(cov) # 0

Inverse(cov) ==
    IF Len(cov) = 1 THEN <<(<<Rat(1, cov[1][1])>>)>>
    ELSE << <<Rat(cov[2][2], Det(cov)), Rat(0 - cov[1][2], Det(cov))>>,
            <<Rat(0 - cov[2][1], Det(cov)), Rat(cov[1][1], Det(cov))>> >>

\* Row i of sum((x_cen * cov.i()) % x_cen, 1)
DistVal(xc, inv) ==
    RSum([c \in 1..Len(xc) |->
            RMul(RSum([r \in 1..Len(xc) |-> RMul(RInt(xc[r]), inv[r][c])]), RInt(xc[c]))])

\* arma::eig_sym(sigma) of a symmetric matrix: all eigenvalues are positive iff
\* the leading minors are; their product is det(sigma).
EigAllPositive(sigma) ==
    IF Len(sigma) = 1 THEN sigma[1][1] > 0
    ELSE Det(sigma) > 0 /\ sigma[1][1] + sigma[2][2] > 0

\* logretval = -((x.n_cols * log2pi + logdet + distval) / 2), one entry per row;
\* the log of a non-positive eigenvalue makes logdet, and every entry, NaN.
LogRetVal(xc, sigma, ncols) ==
    [i \in 1..Len(xc) |->
        IF EigAllPositive(sigma)
        THEN LogVal(0 - ncols, RInt(Det(sigma)), DistVal(xc[i], Inverse(sigma)))
        ELSE NaN]

----------------------------------------------------------------------------
(* The serial evaluators.  A matrix x is [n_cols, rows]: its column count and
   the sequence of its rows. *)

NRows(x) == Len(x.rows)

\* if(logd==false){ out=exp(out); }
ExpNeededInverted(logd) == logd = TRUE
ExpNeeded(logd) == logd = FALSE

RECURSIVE SerialLoop(_, _, _, _, _)
\* for (int i=0; i < n; i++) out(i) = ...
SerialLoop(i, o, l, x, mean) ==
    IF i > NRows(x) THEN o
    ELSE SerialLoop(i + 1, [o EXCEPT ![i] = RowLogDensity(l, x.rows[i], mean)], l, x, mean)

\* The size error of the loop body is raised by the first row there is.
dmvnrm_arma(x, mean, sigma, logd) ==
    IF ~CholOK(sigma) THEN Error("chol")
    ELSE IF NRows(x) >= 1 /\ ~RowOK(Rooti(sigma), x.rows[1], mean) THEN Error("size")
    ELSE LET l == Locals(sigma, x.n_cols)
             o == SerialLoop(1, [i \in 1..NRows(x) |-> Unset], l, x, mean)
         IN  Value(IF ExpNeeded(logd) THEN ExpVec(o) ELSE o)

Mahalanobis(x, center, cov) ==
    IF ~Invertible(cov) THEN Error("inv")
    ELSE Value([i \in 1..NRows(x) |-> Centered(x.rows[i], center)])

\* The part of dmvnorm_arma / dmvnorm_arma_mc after the Mahalanobis call.
DmvnormTail(xc, sigma, ncols, log) ==
    LET lrv == LogRetVal(xc, sigma, ncols)
    IN  Value(IF log THEN lrv ELSE ExpVec(lrv))

dmvnorm_arma(x, mean, sigma, log) ==
    LET m == Mahalanobis(x, mean, sigma)
    IN  IF m.kind = "error" THEN m ELSE DmvnormTail(m.val, sigma, x.n_cols, log)

\* double vectorSum(NumericVector x): std::accumulate(x.begin(), x.end(), 0.0)
RECURSIVE Accumulate(_, _, _, _)
Accumulate(input, begin, end, init) ==
    IF begin >= end THEN init
    ELSE Accumulate(input, begin + 1, end, init + input[begin + 1])

vectorSum(x) == Accumulate(x, 0, Len(x), 0)

\* struct Sum: the standard and the splitting constructor set value(0) ...
Sum_new(input) == 0
Sum_split_copy(sum) == sum
Sum_split(sum) == 0

\* ... and make input refer to the vector given, or to the input of the worker
\* that is split.
Sum_new_input(input) == input
Sum_split_input(sum_input) == sum_input

\* ... operator() adds the sum of input[begin, end) to value ...
Sum_call_overwrite(value, input, begin, end) == Accumulate(input, begin, end, 0)
Sum_call(value, input, begin, end) == value + Accumulate(input, begin, end, 0)

\* ... and join adds the other instance's value.
Sum_join(value, rhs) == value + rhs

----------------------------------------------------------------------------
(* Inputs *)

Dims == {1, 2}

\* Covariance matrices: positive definite ([[4]], the identity, [[2,1],[1,2]]);
\* indefinite but invertible ([[-1]], [[1,2],[2,1]]); singular ([[0]],
\* [[1,1],[1,1]]).
Sigmas(k) ==
    IF k = 1 THEN { <<(<<4>>)>>, <<(<<0 - 1>>)>>, <<(<<0>>)>> }
    ELSE { << <<1, 0>>, <<0, 1>> >>, << <<2, 1>>, <<1, 2>> >>,
           << <<1, 2>>, <<2, 1>> >>, << <<1, 1>>, <<1, 1>> >> }

Means(k) == IF k = 1 THEN { <<0>>, <<1>> } ELSE { <<0, 0>>, <<1, 0>> }

\* Row i of the row batch X (all rows distinct), and the batches X[1:n,].
XRow(k, i) == IF k = 1 THEN <<2 * (i - 1)>> ELSE <<i - 1, 2 * (i - 1)>>

Batches(k) == { [n_cols |-> k, rows |-> [i \in 1..n |-> XRow(k, i)]] : n \in 0..MaxRows }

DensityArgs ==
    UNION { [x : Batches(k), mean : Means(k), sigma : Sigmas(k), logd : BOOLEAN] : k \in Dims }

\* Arguments whose dimensions disagree: a mean, or a covariance matrix, of the
\* other dimension than the rows of x.
OtherDim(k) == 3 - k

MismatchArgs ==
    UNION { [x : Batches(k), mean : Means(OtherDim(k)), sigma : Sigmas(k), logd : BOOLEAN]
            \cup [x : Batches(k), mean : Means(k), sigma : Sigmas(OtherDim(k)), logd : BOOLEAN]
            : k \in Dims }

\* Worker counts a caller may pass: the valid ones, and 0 and -1.
CoresArgs == (0 - 1)..MaxThreads

\* Integer-valued vectors, as v <- as.numeric(c(1:10000000)) of the test is.
Elems == {1, 2}

Vectors == UNION { [1..n -> Elems] : n \in 0..MaxLen }

NoRed == [value |-> <<>>, input |-> <<>>, live |-> {}, pending |-> {}]

DensityCall(f, a, c) ==
    [fn |-> f, x |-> a.x, mean |-> a.mean, sigma |-> a.sigma, logd |-> a.logd, cores |-> c]

SumCall(f, v, c) ==
    [fn |-> f, x |-> v, mean |-> <<>>, sigma |-> <<>>, logd |-> FALSE, cores |-> c]

NoCall == SumCall("none", <<>>, 1)

Idle == [st |-> "idle", i |-> 0, hi |-> 0, tmp |-> 0]

----------------------------------------------------------------------------
(* The R session *)

\* When the process starts, nthreads-var is the number of processors.
Init ==
    /\ numThreads = MaxThreads
    /\ pc = "idle"
    /\ call = NoCall
    /\ before = numThreads
    /\ loc = NoLocals
    /\ out = <<>>
    /\ xcen = <<>>
    /\ writes = <<>>
    /\ next = 0
    /\ thr = <<>>
    /\ res = 0
    /\ red = NoRed
    /\ outcome = NoOutcome

\* omp_set_num_threads(cores) sets nthreads-var.  The argument must be positive;
\* otherwise the effect is implementation defined: the runtime keeps some
\* positive setting of its own choice.
OmpSetNumThreads(cores) == IF cores >= 1 THEN {cores} ELSE 1..MaxThreads

\* A serial evaluator runs on the calling thread alone, start to end.
CallSerial(f, result) ==
    /\ pc = "idle"
    /\ pc' = "done"
    /\ call' = f
    /\ before' = numThreads
    /\ outcome' = result
    /\ UNCHANGED <<numThreads, loc, out, xcen, writes, next, thr, res, red>>

\* dmvnrm_arma is entered; it runs on the calling thread alone and does not
\* touch the OpenMP setting.
Enter_dmvnrm_arma(a) ==
    /\ pc = "idle"
    /\ pc' = "factor"
    /\ call' = DensityCall("dmvnrm_arma", a, 1)
    /\ before' = numThreads
    /\ UNCHANGED <<numThreads, loc, out, xcen, writes, next, thr, res, red, outcome>>

Call_dmvnrm_arma == \E a \in DensityArgs : Enter_dmvnrm_arma(a)

\* No statement of the function compares the dimensions of its arguments, so it
\* is entered the same way when they disagree.
Call_dmvnrm_arma_mismatched == \E a \in MismatchArgs : Enter_dmvnrm_arma(a)

Call_dmvnorm_arma ==
    \E a \in DensityArgs :
        CallSerial(DensityCall("dmvnorm_arma", a, 1), dmvnorm_arma(a.x, a.mean, a.sigma, a.logd))

Call_vectorSum ==
    \E v \in Vectors : CallSerial(SumCall("vectorSum", v, 1), Value(vectorSum(v)))

\* dmvnrm_arma_mc: omp_set_num_threads( cores ) is its first statement.
Enter_dmvnrm_arma_mc(a, c) ==
    /\ pc = "idle"
    /\ pc' = "factor"
    /\ call' = DensityCall("dmvnrm_arma_mc", a, c)
    /\ before' = numThreads
    /\ numThreads' \in OmpSetNumThreads(c)
    /\ UNCHANGED <<loc, out, xcen, writes, next, thr, res, red, outcome>>

Call_dmvnrm_arma_mc == \E a \in DensityArgs, c \in CoresArgs : Enter_dmvnrm_arma_mc(a, c)

Call_dmvnrm_arma_mc_mismatched ==
    \E a \in MismatchArgs, c \in CoresArgs : Enter_dmvnrm_arma_mc(a, c)

\* The threads that run the per-row loop, none holding an iteration yet: the
\* calling thread alone in dmvnrm_arma, the nthreads-var threads of the team of
\* the parallel region otherwise.
Team == [t \in 1..(IF call.fn = "dmvnrm_arma" THEN 1 ELSE numThreads) |-> Idle]

\* rooti, rootisum and constants are computed before the loop; chol throws on a
\* matrix that is not positive definite.  Then the loop (in dmvnrm_arma_mc: the
\* parallel region) starts.
Factorize ==
    /\ pc = "factor"
    /\ IF ~CholOK(call.sigma)
       THEN /\ pc' = "done"
            /\ outcome' = Error("chol")
            /\ UNCHANGED <<loc, out, writes, next, thr>>
       ELSE /\ pc' = "loop"
            /\ loc' = Locals(call.sigma, call.x.n_cols)
            /\ out' = [i \in 1..NRows(call.x) |-> Unset]
            /\ writes' = [i \in 1..NRows(call.x) |-> 0]
            /\ next' = 1
            /\ thr' = Team
            /\ UNCHANGED outcome
    /\ UNCHANGED <<numThreads, call, before, xcen, res, red>>

\* dmvnorm_arma_mc calls Mahalanobis_mc, whose first statement is
\* omp_set_num_threads(cores).
Call_dmvnorm_arma_mc ==
    \E a \in DensityArgs, c \in CoresArgs :
        /\ pc = "idle"
        /\ pc' = "center"
        /\ call' = DensityCall("dmvnorm_arma_mc", a, c)
        /\ before' = numThreads
        /\ numThreads' \in OmpSetNumThreads(c)
        /\ UNCHANGED <<loc, out, xcen, writes, next, thr, res, red, outcome>>

UnsetRow == <<>>

\* x_cen.copy_size(x) leaves x_cen uninitialized; then the parallel region starts.
CopySize ==
    /\ pc = "center"
    /\ pc' = "loop"
    /\ xcen' = [i \in 1..NRows(call.x) |-> UnsetRow]
    /\ writes' = [i \in 1..NRows(call.x) |-> 0]
    /\ next' = 1
    /\ thr' = Team
    /\ UNCHANGED <<numThreads, call, before, loc, out, res, red, outcome>>

\* schedule(dynamic): a thread that holds no iteration takes the next unclaimed
\* one; the runtime hands out each iteration once.  In the serial loop this is
\* the loop counter of the one thread.
ClaimRacy(t) ==
    /\ pc = "loop"
    /\ thr[t].st = "idle"
    /\ next <= NRows(call.x)
    /\ \E j \in {next} \cup {thr[u].i : u \in {u \in DOMAIN thr : thr[u].st = "run"}} :
          thr' = [thr EXCEPT ![t] = [Idle EXCEPT !.st = "run", !.i = j]]
    /\ next' = next + 1
    /\ UNCHANGED <<numThreads, pc, call, before, loc, out, xcen, writes, res, red, outcome>>

Claim(t) ==
    /\ pc = "loop"
    /\ thr[t].st = "idle"
    /\ next <= NRows(call.x)
    /\ thr' = [thr EXCEPT ![t] = [Idle EXCEPT !.st = "run", !.i = next]]
    /\ next' = next + 1
    /\ UNCHANGED <<numThreads, pc, call, before, loc, out, xcen, writes, res, red, outcome>>

\* The loop body of iteration i, run by the thread that claimed it: z is local to
\* the iteration; the only shared location written is out(i), or x_cen.row(i).
BodyAccumulatingRootisum(t) ==
    /\ pc = "loop"
    /\ thr[t].st = "run"
    /\ call.fn \in {"dmvnrm_arma", "dmvnrm_arma_mc"}
    /\ out' = [out EXCEPT ![thr[t].i] =
                  RowLogDensity(loc, call.x.rows[thr[t].i], call.mean)]
    /\ loc' = [loc EXCEPT !.rootisum = RMul(@, RootiSum(loc.rooti))]
    /\ writes' = [writes EXCEPT ![thr[t].i] = @ + 1]
    /\ thr' = [thr EXCEPT ![t] = Idle]
    /\ UNCHANGED <<numThreads, pc, call, before, xcen, next, res, red, outcome>>

\* When an operand size is wrong the body throws instead.  From the serial loop
\* the exception reaches R as an error.  No statement of a parallel region
\* catches it, and an exception that leaves the region ends the process.
BodyOK(i) ==
    IF call.fn = "dmvnorm_arma_mc" THEN SubtractOK(call.x.rows[i], call.mean)
    ELSE RowOK(loc.rooti, call.x.rows[i], call.mean)

Body(t) ==
    /\ pc = "loop"
    /\ thr[t].st = "run"
    /\ LET i == thr[t].i
       IN  IF BodyOK(i)
           THEN /\ IF call.fn = "dmvnorm_arma_mc"
                   THEN /\ xcen' = [xcen EXCEPT ![i] = Centered(call.x.rows[i], call.mean)]
                        /\ UNCHANGED out
                   ELSE /\ out' = [out EXCEPT ![i] =
                                      RowLogDensity(loc, call.x.rows[i], call.mean)]
                        /\ UNCHANGED xcen
                /\ writes' = [writes EXCEPT ![i] = @ + 1]
                /\ thr' = [thr EXCEPT ![t] = Idle]
                /\ UNCHANGED <<pc, outcome>>
           ELSE /\ pc' = "done"
                /\ outcome' = IF call.fn = "dmvnrm_arma" THEN Error("size") ELSE Terminated
                /\ thr' = <<>>
                /\ UNCHANGED <<out, xcen, writes>>
    /\ UNCHANGED <<numThreads, call, before, loc, next, res, red>>

\* The implicit barrier that ends "omp parallel for": the master goes on only when
\* no iteration is left and every thread of the team has finished its last one.
\* (The serial loop ends when its counter reaches n.)
LoopJoinedNoWait == next > NRows(call.x)
LoopJoined == next > NRows(call.x) /\ \A t \in DOMAIN thr : thr[t].st = "idle"

EndLoop ==
    /\ pc = "loop"
    /\ LoopJoined
    /\ pc' = "post"
    /\ thr' = <<>>
    /\ UNCHANGED <<numThreads, call, before, loc, out, xcen, writes, next, res, red, outcome>>

\* dmvnrm_arma and dmvnrm_arma_mc after the loop: if(logd==false) out=exp(out);
\* return(out);
ExpPass ==
    /\ pc = "post"
    /\ call.fn \in {"dmvnrm_arma", "dmvnrm_arma_mc"}
    /\ out' = IF ExpNeeded(call.logd) THEN ExpVec(out) ELSE out
    /\ outcome' = Value(out')
    /\ pc' = "done"
    /\ UNCHANGED <<numThreads, call, before, loc, xcen, writes, next, thr, res, red>>

\* Mahalanobis_mc after the loop (cov.i() throws on a singular matrix), and the
\* rest of dmvnorm_arma_mc.
MahalanobisTail ==
    /\ pc = "post"
    /\ call.fn = "dmvnorm_arma_mc"
    /\ outcome' = IF ~Invertible(call.sigma) THEN Error("inv")
                  ELSE DmvnormTail(xcen, call.sigma, call.x.n_cols, call.logd)
    /\ pc' = "done"
    /\ UNCHANGED <<numThreads, call, before, loc, out, xcen, writes, next, thr, res, red>>

\* schedule(static) without a chunk size: the K iterations are cut into one
\* contiguous chunk per thread, as equal as possible, the first K % T threads
\* getting one more.  Thread t runs iterations i+1 .. hi (i counts those done).
StaticChunk(K, T, t) ==
    LET q == K \div T
        r == K % T
        lo == (t - 1) * q + (IF t - 1 < r THEN t - 1 ELSE r)
    IN  [st |-> "load", i |-> lo, hi |-> lo + q + (IF t - 1 < r THEN 1 ELSE 0), tmp |-> 0]

\* armasum2 up to the start of the parallel region: res=0;
\* omp_set_num_threads(cores); #pragma omp parallel for schedule(static)
Call_armasum2 ==
    \E v \in Vectors, c \in CoresArgs :
        /\ pc = "idle"
        /\ pc' = "sum"
        /\ call' = SumCall("armasum2", v, c)
        /\ before' = numThreads
        /\ res' = 0
        /\ \E nt \in OmpSetNumThreads(c) :
              /\ numThreads' = nt
              /\ thr' = [t \in 1..nt |-> StaticChunk(Len(v), nt, t)]
        /\ UNCHANGED <<loc, out, xcen, writes, next, red, outcome>>

\* res+=x(k) on the shared, unsynchronized res (no reduction clause, no atomic):
\* the thread reads res ...
Load(t) ==
    /\ pc = "sum"
    /\ thr[t].st = "load"
    /\ thr[t].i < thr[t].hi
    /\ thr' = [thr EXCEPT ![t].st = "store", ![t].tmp = res]
    /\ UNCHANGED <<numThreads, pc, call, before, loc, out, xcen, writes, next, res, red, outcome>>

\* ... and writes back what it read plus x(k).
Store(t) ==
    /\ pc = "sum"
    /\ thr[t].st = "store"
    /\ res' = thr[t].tmp + call.x[thr[t].i + 1]
    /\ thr' = [thr EXCEPT ![t].st = "load", ![t].i = @ + 1, ![t].tmp = 0]
    /\ UNCHANGED <<numThreads, pc, call, before, loc, out, xcen, writes, next, red, outcome>>

\* The barrier that ends the parallel loop; return(res).
EndSum ==
    /\ pc = "sum"
    /\ \A t \in DOMAIN thr : thr[t].st = "load" /\ thr[t].i >= thr[t].hi
    /\ pc' = "done"
    /\ thr' = <<>>
    /\ outcome' = Value(res)
    /\ UNCHANGED <<numThreads, call, before, loc, out, xcen, writes, next, res, red>>

\* parallelVectorSum: Sum sum(x); parallelReduce(0, x.length(), sum);
Call_parallelVectorSum ==
    \E v \in Vectors :
        /\ pc = "idle"
        /\ pc' = "reduce"
        /\ call' = SumCall("parallelVectorSum", v, 1)
        /\ before' = numThreads
        /\ red' = [value |-> <<Sum_new(v)>>, input |-> <<Sum_new_input(v)>>, live |-> {1},
                   pending |-> IF Len(v) = 0 THEN {} ELSE {<<0, Len(v)>>}]
        /\ UNCHANGED <<numThreads, loc, out, xcen, writes, next, thr, res, outcome>>

\* parallelReduce cuts a range not yet processed into two disjoint ranges.
SplitRange ==
    /\ pc = "reduce"
    /\ \E c \in red.pending : \E m \in (c[1] + 1)..(c[2] - 1) :
          red' = [red EXCEPT !.pending = (@ \ {c}) \cup {<<c[1], m>>, <<m, c[2]>>}]
    /\ UNCHANGED <<numThreads, pc, call, before, loc, out, xcen, writes, next, thr, res, outcome>>

\* parallelReduce makes a new worker from a live one with the splitting
\* constructor Sum(const Sum& sum, Split).
SplitWorker ==
    /\ pc = "reduce"
    /\ red.pending # {}
    /\ Len(red.value) < 1 + MaxSplits
    /\ \E w \in red.live :
          red' = [red EXCEPT !.value = Append(@, Sum_split(red.value[w])),
                             !.input = Append(@, Sum_split_input(red.input[w])),
                             !.live = @ \cup {Len(red.value) + 1}]
    /\ UNCHANGED <<numThreads, pc, call, before, loc, out, xcen, writes, next, thr, res, outcome>>

\* A live worker is handed a range: operator()(begin, end).
Operator ==
    /\ pc = "reduce"
    /\ \E w \in red.live, c \in red.pending :
          red' = [red EXCEPT !.value[w] = Sum_call(@, red.input[w], c[1], c[2]),
                             !.pending = @ \ {c}]
    /\ UNCHANGED <<numThreads, pc, call, before, loc, out, xcen, writes, next, thr, res, outcome>>

\* A split worker r is joined into another worker w, w.join(r), and destroyed;
\* the root worker (sum, worker 1) is never joined away.
Join ==
    /\ pc = "reduce"
    /\ \E w \in red.live, r \in red.live \ {1} :
          /\ w # r
          /\ red' = [red EXCEPT !.value[w] = Sum_join(@, red.value[r]),
                                !.live = @ \ {r}]
    /\ UNCHANGED <<numThreads, pc, call, before, loc, out, xcen, writes, next, thr, res, outcome>>

EndReduceWithoutJoin ==
    /\ pc = "reduce"
    /\ red.pending = {}
    /\ pc' = "done"
    /\ outcome' = Value(red.value[1])
    /\ UNCHANGED <<numThreads, call, before, loc, out, xcen, writes, next, thr, res, red>>

\* parallelReduce returns when every range is processed and every split worker
\* joined; return sum.value;
EndReduce ==
    /\ pc = "reduce"
    /\ red.pending = {}
    /\ red.live = {1}
    /\ pc' = "done"
    /\ outcome' = Value(red.value[1])
    /\ UNCHANGED <<numThreads, call, before, loc, out, xcen, writes, next, thr, res, red>>

\* The call returns to R (unless the process has ended); its locals are gone,
\* the OpenMP setting stays as it is.
Return ==
    /\ pc = "done"
    /\ outcome # Terminated
    /\ pc' = "idle"
    /\ call' = NoCall
    /\ before' = numThreads
    /\ loc' = NoLocals
    /\ out' = <<>>
    /\ xcen' = <<>>
    /\ writes' = <<>>
    /\ next' = 0
    /\ thr' = <<>>
    /\ res' = 0
    /\ red' = NoRed
    /\ outcome' = NoOutcome
    /\ UNCHANGED numThreads

\* The R session calling the functions that use OpenMP, and the serial density
\* evaluators they are compared with.
Next ==
    \/ Call_dmvnrm_arma
    \/ Call_dmvnorm_arma
    \/ Call_dmvnrm_arma_mc
    \/ Factorize
    \/ Call_dmvnorm_arma_mc
    \/ CopySize
    \/ \E t \in DOMAIN thr : Claim(t)
    \/ \E t \in DOMAIN thr : Body(t)
    \/ EndLoop
    \/ ExpPass
    \/ MahalanobisTail
    \/ Call_armasum2
    \/ \E t \in DOMAIN thr : Load(t)
    \/ \E t \in DOMAIN thr : Store(t)
    \/ EndSum
    \/ Return

Spec == Init /\ [][Next]_vars

\* The R session calling the RcppParallel example: vectorSum and
\* parallelVectorSum, which leave the OpenMP setting alone.
NextSum ==
    \/ Call_vectorSum
    \/ Call_parallelVectorSum
    \/ SplitRange
    \/ SplitWorker
    \/ Operator
    \/ Join
    \/ EndReduce
    \/ Return

SpecSum == Init /\ [][NextSum]_vars

\* The R session calling the whitening-form evaluators with arguments whose
\* dimensions disagree.
NextMismatched ==
    \/ Call_dmvnrm_arma_mismatched
    \/ Call_dmvnrm_arma_mc_mismatched
    \/ Factorize
    \/ \E t \in DOMAIN thr : Claim(t)
    \/ \E t \in DOMAIN thr : Body(t)
    \/ EndLoop
    \/ ExpPass
    \/ Return

SpecMismatched == Init /\ [][NextMismatched]_vars

\* One call of a parallel density evaluator or of parallelVectorSum, from the
\* call to the return value.
NextBatch ==
    \/ Call_dmvnrm_arma_mc
    \/ Factorize
    \/ Call_dmvnorm_arma_mc
    \/ CopySize
    \/ \E t \in DOMAIN thr : Claim(t)
    \/ \E t \in DOMAIN thr : Body(t)
    \/ EndLoop
    \/ ExpPass
    \/ MahalanobisTail
    \/ Call_parallelVectorSum
    \/ SplitRange
    \/ SplitWorker
    \/ Operator
    \/ Join
    \/ EndReduce

\* The steps the running call takes by itself: those of the calling thread, of
\* the threads of the OpenMP team, and the tasks parallelReduce has to run.
\* (Whether and where parallelReduce splits is its own choice.)
Progress ==
    \/ Factorize
    \/ CopySize
    \/ \E t \in DOMAIN thr : Claim(t)
    \/ \E t \in DOMAIN thr : Body(t)
    \/ EndLoop
    \/ ExpPass
    \/ MahalanobisTail
    \/ Operator
    \/ Join
    \/ EndReduce

\* The operating system and the task scheduler do not stall a call for ever:
\* while a step of the call can be taken, one eventually is.
SpecBatch == Init /\ [][NextBatch]_vars /\ WF_vars(Progress)

----------------------------------------------------------------------------
(* Properties *)

ParallelDensity == {"dmvnrm_arma_mc", "dmvnorm_arma_mc"}
WhiteningForm == {"dmvnrm_arma", "dmvnrm_arma_mc"}
Densities == {"dmvnrm_arma", "dmvnrm_arma_mc", "dmvnorm_arma", "dmvnorm_arma_mc"}
Running(t) == thr[t].st = "run"

ExactlyOncePerIndex ==
    call.fn \in ParallelDensity =>
        /\ \A i \in DOMAIN writes : writes[i] <= 1
        /\ \A t, u \in DOMAIN thr :
              (t # u /\ Running(t) /\ Running(u)) => thr[t].i # thr[u].i
        /\ \A t \in DOMAIN thr : Running(t) => writes[thr[t].i] = 0
        /\ pc = "post" =>
              /\ DOMAIN writes = 1..NRows(call.x)
              /\ \A i \in DOMAIN writes : writes[i] = 1

\* Two threads of the team are inside the loop body at once.
ExactlyOncePerIndexWitness ==
    /\ pc = "loop"
    /\ \E t, u \in DOMAIN thr : t # u /\ Running(t) /\ Running(u)

\* C3: however parallelReduce cuts [0, n) into ranges, splits workers, runs
\* operator() and joins, parallelVectorSum(x) is the serial vectorSum(x), exactly,
\* for integer-valued x.
ReduceEqualsSerial ==
    (pc = "done" /\ call.fn = "parallelVectorSum") => outcome = Value(vectorSum(call.x))

\* A sum over at least three elements for which two workers were split off.
ReduceEqualsSerialWitness ==
    /\ pc = "done"
    /\ call.fn = "parallelVectorSum"
    /\ Len(call.x) >= 3
    /\ Len(red.value) >= 3

\* C4: for every integer-valued x and every cores >= 1, under every interleaving,
\* armasum2(x, cores) returns exactly the sequential sum of x.
ArmasumExact ==
    (pc = "done" /\ call.fn = "armasum2" /\ call.cores >= 1) =>
        outcome = Value(vectorSum(call.x))

\* C5: for every dimension k, odd or even, twice the coefficient of log(2*pi) in
\* every log-density dmvnrm_arma and dmvnrm_arma_mc compute is -k.
NormalizerCoefficient ==
    (pc = "done" /\ call.fn \in WhiteningForm /\ outcome.kind = "value") =>
        \A i \in DOMAIN outcome.val : outcome.val[i].c2pi = 0 - call.x.n_cols

\* Positive definite: the leading principal minors are positive.
PositiveDefinite(sigma) == sigma[1][1] > 0 /\ Det(sigma) > 0

\* C6: for every covariance matrix that is not positive definite every density
\* evaluator, called on a batch of at least one row, ends in an error; none
\* returns a result vector.
NotPositiveDefiniteIsError ==
    (/\ pc = "done"
     /\ call.fn \in Densities
     /\ NRows(call.x) >= 1
     /\ ~PositiveDefinite(call.sigma)) => outcome.kind = "error"

\* C7: when a call (given a valid worker count) returns, the process-wide
\* thread-count setting has the value it had before the call.
ThreadCountCallScoped == (pc = "done" /\ call.cores >= 1) => numThreads = before

\* C8: for every valid (covariance, mean, rows) of every dimension the whitening
\* form dmvnrm_arma and the Mahalanobis form dmvnorm_arma give the same
\* log-density (and density) for every row.
FormsAgree ==
    (pc = "done" /\ call.fn = "dmvnrm_arma" /\ PositiveDefinite(call.sigma)) =>
        outcome = dmvnorm_arma(call.x, call.mean, call.sigma, call.logd)

\* C9: the scale flag only selects a final elementwise pass.  No entry is ever
\* exponentiated twice; an entry of out is exponentiated only with logd = false,
\* after the loop has ended, when no thread of the team is left and every entry
\* has been written; with logd = true the result has no exponentiated entry, and
\* with logd = false it is the elementwise exponential of the log-scale result.
ExpOnlyAfterLoop ==
    /\ \A i \in DOMAIN out :
          /\ out[i].exps <= 1
          /\ out[i].exps = 1 =>
                /\ call.logd = FALSE
                /\ pc = "done"
                /\ thr = <<>>
                /\ \A j \in DOMAIN out : out[j].kind = "num" /\ writes[j] = 1
    /\ (pc = "done" /\ call.fn \in WhiteningForm /\ outcome.kind = "value") =>
          /\ call.logd = TRUE => \A i \in DOMAIN outcome.val : outcome.val[i].exps = 0
          /\ call.logd = FALSE =>
                /\ \A i \in DOMAIN outcome.val : outcome.val[i].exps = 1
                /\ outcome.val =
                      ExpVec(dmvnrm_arma(call.x, call.mean, call.sigma, TRUE).val)

\* A natural-scale result of a two-thread dmvnrm_arma_mc run: out was exponentiated.
ExpOnlyAfterLoopWitness ==
    /\ pc = "done"
    /\ call.fn = "dmvnrm_arma_mc"
    /\ call.logd = FALSE
    /\ numThreads >= 2
    /\ NRows(call.x) >= 2
    /\ \A i \in DOMAIN out : out[i].exps = 1

\* C10: a parallel entry point called with a worker count < 1 starts no worker
\* and ends in an InvalidConfigurationError.
InvalidWorkerCountIsError ==
    (call.fn \in ParallelDensity \cup {"armasum2"} /\ call.cores < 1) =>
        /\ thr = <<>>
        /\ pc = "done" => outcome = Error("InvalidConfiguration")

\* The dimensions of the arguments disagree: the mean, or the covariance matrix,
\* does not have the dimension of the rows of x.
DimensionMismatch(c) == Len(c.mean) # c.x.n_cols \/ Len(c.sigma) # c.x.n_cols

\* C11: when the dimensions of the arguments of dmvnrm_arma or dmvnrm_arma_mc
\* disagree (the batch has a row, the covariance is positive definite), the call
\* ends in a DimensionMismatchError, and before that the covariance is not
\* factorized, no thread runs the loop and no row is evaluated.
DimensionCheckedFirst ==
    (/\ call.fn \in WhiteningForm
     /\ DimensionMismatch(call)
     /\ NRows(call.x) >= 1
     /\ PositiveDefinite(call.sigma)) =>
        /\ loc = NoLocals
        /\ call.fn = "dmvnrm_arma_mc" => thr = <<>>
        /\ \A t \in DOMAIN thr : ~Running(t)
        /\ \A i \in DOMAIN writes : writes[i] = 0
        /\ pc = "done" => outcome = Error("DimensionMismatch")

\* C12: a failed batch produces no output.  Whenever a call of dmvnrm_arma or
\* dmvnrm_arma_mc has ended, also after an error raised inside the per-row loop,
\* R has received either an error or a result vector, and a result vector has
\* every one of its n entries written (for every worker count >= 1).
FailedBatchIsError ==
    (pc = "done" /\ call.fn \in WhiteningForm /\ call.cores >= 1) =>
        /\ outcome.kind \in {"value", "error"}
        /\ outcome.kind = "value" =>
              /\ Len(outcome.val) = NRows(call.x)
              /\ \A i \in DOMAIN outcome.val : writes[i] = 1 /\ outcome.val[i].kind # "unset"

\* C13: while the per-row loop of dmvnrm_arma or dmvnrm_arma_mc runs, rooti,
\* rootisum and constants are the values computed from sigma and xdim before the
\* loop, and no step (of the serial loop, or of any thread of the team) changes
\* the arguments x, mean, sigma or these locals.
InputsAndLocalsFrozen ==
    [][(pc = "loop" /\ call.fn \in WhiteningForm) =>
          /\ loc = Locals(call.sigma, call.x.n_cols)
          /\ call' = call
          /\ loc' = loc]_vars

\* Two threads are in the loop of dmvnrm_arma_mc, one row is written and another
\* is being evaluated, with a covariance matrix other than the identity.
InputsAndLocalsFrozenWitness ==
    /\ pc = "loop"
    /\ call.fn = "dmvnrm_arma_mc"
    /\ Len(thr) >= 2
    /\ loc.rootisum # RInt(1)
    /\ \E i \in DOMAIN writes : writes[i] = 1
    /\ \E t \in DOMAIN thr : Running(t)

\* C14: a step that splits a Sum worker adds one worker that refers to the input
\* of the worker it was split from (the vector handed to parallelVectorSum) and
\* has value 0, and leaves every existing worker, the source included, as it
\* was; a step that joins worker r into worker w adds r's value to w's value and
\* leaves r's value, and every other worker, unchanged.
SplitAndJoinFrame ==
    [][(pc = "reduce" /\ pc' = "reduce") =>
          /\ Len(red'.value) # Len(red.value) =>
                /\ Len(red'.value) = Len(red.value) + 1
                /\ Len(red'.input) = Len(red'.value)
                /\ red'.value[Len(red'.value)] = 0
                /\ \E w \in red.live : red'.input[Len(red'.value)] = red.input[w]
                /\ red'.input[Len(red'.value)] = call.x
                /\ \A w \in 1..Len(red.value) :
                      red'.value[w] = red.value[w] /\ red'.input[w] = red.input[w]
          /\ red'.live # red.live /\ Len(red'.value) = Len(red.value) =>
                \E w \in red.live, r \in red.live \ {1} :
                    /\ w # r
                    /\ red'.live = red.live \ {r}
                    /\ red'.value[w] = red.value[w] + red.value[r]
                    /\ red'.value[r] = red.value[r]
                    /\ \A u \in (1..Len(red.value)) \ {w} : red'.value[u] = red.value[u]
                    /\ red'.input = red.input]_vars

\* A worker that had accumulated something was joined away and still holds its
\* value, beside the receiver's, and a split worker not yet used holds 0.
SplitAndJoinFrameWitness ==
    /\ pc = "reduce"
    /\ \E r \in (1..Len(red.value)) \ red.live : red.value[r] > 0
    /\ \E w \in red.live \ {1} : red.value[w] = 0
    /\ red.value[1] > 0

\* Sum of the values of the workers not yet joined away.
RECURSIVE LiveTotal(_, _)
LiveTotal(value, live) ==
    IF live = {} THEN 0
    ELSE LET w == CHOOSE u \in live : TRUE
         IN  value[w] + LiveTotal(value, live \ {w})

\* The indices of [0, n) that lie in no range still to be processed, and the sum
\* of the input elements at a set of indices.
Processed(n, pending) ==
    {i \in 0..(n - 1) : ~\E c \in pending : c[1] <= i /\ i < c[2]}

RECURSIVE ElementTotal(_, _)
ElementTotal(input, idx) ==
    IF idx = {} THEN 0
    ELSE LET i == CHOOSE j \in idx : TRUE
         IN  input[i + 1] + ElementTotal(input, idx \ {i})

\* C16: conservation of the partial sums.  In every state of a parallelVectorSum
\* call, whatever splits, operator() calls and joins have happened, the values of
\* the Sum workers not yet joined away add up to the sum of the input elements of
\* the chunks processed so far (operator() adds to value, it does not overwrite).
PartialSumsConserved ==
    (pc \in {"reduce", "done"} /\ call.fn = "parallelVectorSum") =>
        LiveTotal(red.value, red.live) =
            ElementTotal(call.x, Processed(Len(call.x), red.pending))

\* The root worker, the only one there is, has run operator() on the chunk before
\* and on the chunk after the one still to be processed: on two chunks.
PartialSumsConservedWitness ==
    /\ pc = "reduce"
    /\ Len(red.value) = 1
    /\ \E c \in red.pending :
          red.pending = {c} /\ c[1] > 0 /\ c[2] < Len(call.x)
    /\ red.value[1] >= 2

\* A parallel density evaluator has returned: with the error of the
\* factorization, which precedes the loop, or else with every row processed.
\* parallelVectorSum has returned: every chunk is accumulated, every split worker
\* is joined, so that only the root worker is left, and its value is handed back.
Completed ==
    /\ pc = "done"
    /\ call.fn \in ParallelDensity =>
          \/ outcome = Error("chol")
          \/ /\ DOMAIN writes = 1..NRows(call.x)
             /\ \A i \in DOMAIN writes : writes[i] = 1
    /\ call.fn = "parallelVectorSum" =>
          /\ red.pending = {}
          /\ red.live = {1}
          /\ Processed(Len(call.x), red.pending) = 0..(Len(call.x) - 1)
          /\ outcome = Value(red.value[1])

====
